---------------------------- MODULE Spec2Model ----------------------------
(***************************************************************************)
(* Sales analytics pipeline: DataProcessor (src/Utils/data_processor.py),  *)
(* FileHandler (src/Utils/file_handler.py), APIHandler                     *)
(* (src/Utils/api_handler.py) and main (src/main.py).                      *)
(*                                                                         *)
(* A Python str is a sequence of one-character strings; a string literal   *)
(* of the code is one opaque element (<<"Missing Region">>).  A dict is a  *)
(* function from key names to values, {} being the function with the empty *)
(* domain; a dict whose order matters (the rollups of analyze_sales) is a  *)
(* sequence of [key, val] entries in insertion order.  A Python value is   *)
(* tagged: StrV(s), FloatV(n) or NoneV.  A float is an exact fixed-point   *)
(* number counted in 1/Unit, so that quantity * unit_price of two-decimal  *)
(* inputs is exact.                                                        *)
(***************************************************************************)
EXTENDS Integers, Sequences, FiniteSets, TLC

VARIABLES
    pc,               \* position of the caller: which operation runs next
    raw_records,      \* argument of clean_and_validate_records / validate_record
    idx,              \* loop position of `for record in records`
    valid_records,    \* valid_records list (also the argument of analyze_sales)
    invalid_records,  \* invalid_records list
    outcome,          \* (is_valid, error_message) of a direct validate_record call
    analysis,         \* result of analyze_sales
    report,           \* result of generate_sales_report
    input_file,       \* the sales data file on disk: whether it exists, its lines
    lines,            \* lines returned by FileHandler.read_sales_file
    enriched_records, \* result of APIHandler.enrich_products_data
    final_report,     \* the comprehensive report saved by main
    lookups           \* what the product API answers, by product id

vars == <<pc, raw_records, idx, valid_records, invalid_records, outcome,
          analysis, report, input_file, lines, enriched_records, final_report, lookups>>

-----------------------------------------------------------------------------
(* Bounds of the model *)

MaxRecords == 3       \* longest input list of the cleaning pipeline
MaxValid == 3         \* longest freely composed input list of analyze_sales
MaxProducts == 11     \* most distinct product ids in an input of analyze_sales
MaxEnriched == 2      \* longest valid list given to the enrichment step

Unit == 100 * 100     \* a float n stands for n / Unit
Cent == 10 * 10       \* Cent * Cent = Unit

-----------------------------------------------------------------------------
(* Python values *)

StrV(s) == [t |-> "str", s |-> s, n |-> 0]
FloatV(n) == [t |-> "float", s |-> <<>>, n |-> n]
NoneV == [t |-> "none", s |-> <<>>, n |-> 0]

IsStr(v) == v.t = "str"
IsFloat(v) == v.t = "float"
IsNone(v) == v.t = "none"

\* dict.get(key, default)
Get(d, k, default) == IF k \in DOMAIN d THEN d[k] ELSE default

\* d[key] = value
Put(d, k, v) == [x \in (DOMAIN d) \cup {k} |-> IF x = k THEN v ELSE d[x]]

-----------------------------------------------------------------------------
(* str methods *)

DigitChars == <<"0", "1", "2", "3", "4", "5", "6", "7", "8", "9">>

IsDigit(c) == \E i \in 1..10 : DigitChars[i] = c

DigitVal(c) == (CHOOSE i \in 1..10 : DigitChars[i] = c) - 1

AllDigits(s) == \A i \in 1..Len(s) : IsDigit(s[i])

RECURSIVE DigitsVal(_)
DigitsVal(s) ==
    IF s = <<>> THEN 0
    ELSE DigitsVal(SubSeq(s, 1, Len(s) - 1)) * 10 + DigitVal(s[Len(s)])

RECURSIVE IntToDigits(_)
IntToDigits(n) ==
    IF n < 10 THEN <<DigitChars[n + 1]>>
    ELSE IntToDigits(n \div 10) \o <<DigitChars[(n % 10) + 1]>>

IsSpace(c) == c \in {" ", "\t", "\n"}

\* s.replace(a, b) for a one-character a
RECURSIVE Replace(_, _, _)
Replace(s, a, b) ==
    IF s = <<>> THEN <<>>
    ELSE (IF Head(s) = a THEN b ELSE <<Head(s)>>) \o Replace(Tail(s), a, b)

RECURSIVE LStrip(_)
LStrip(s) == IF s # <<>> /\ IsSpace(Head(s)) THEN LStrip(Tail(s)) ELSE s

RECURSIVE RStrip(_)
RStrip(s) ==
    IF s # <<>> /\ IsSpace(s[Len(s)]) THEN RStrip(SubSeq(s, 1, Len(s) - 1)) ELSE s

\* s.strip()
Strip(s) == RStrip(LStrip(s))

\* s.startswith(c)
StartsWith(s, c) == Len(s) > 0 /\ s[1] = c

\* s.split(): the maximal runs of non-whitespace characters
RECURSIVE SplitWords(_, _)
SplitWords(s, word) ==
    IF s = <<>> THEN (IF word = <<>> THEN <<>> ELSE <<word>>)
    ELSE IF IsSpace(Head(s))
         THEN (IF word = <<>> THEN <<>> ELSE <<word>>) \o SplitWords(Tail(s), <<>>)
         ELSE SplitWords(Tail(s), Append(word, Head(s)))

\* ' '.join(words)
RECURSIVE JoinWords(_)
JoinWords(words) ==
    IF words = <<>> THEN <<>>
    ELSE IF Len(words) = 1 THEN words[1]
    ELSE words[1] \o <<" ">> \o JoinWords(Tail(words))

\* float(s) for the decimal literals [+-]digits[.digits] and [+-].digits;
\* NoneV stands for ValueError.  Surrounding whitespace is ignored by float().
ParseFloat(text) ==
    LET s == Strip(text)
        signed == s # <<>> /\ s[1] \in {"+", "-"}
        body == IF signed THEN Tail(s) ELSE s
        dots == {i \in 1..Len(body) : body[i] = "."}
        dot == IF dots = {} THEN Len(body) + 1 ELSE CHOOSE i \in dots : TRUE
        ip == SubSeq(body, 1, dot - 1)
        fp == SubSeq(body, dot + 1, Len(body))
        fp4 == SubSeq(fp \o <<"0", "0", "0", "0">>, 1, 4)
        mag == DigitsVal(ip) * Unit + DigitsVal(fp4)
    IN  IF /\ Cardinality(dots) <= 1
           /\ AllDigits(ip) /\ AllDigits(fp)
           /\ Len(ip) + Len(fp) > 0
        THEN FloatV(IF signed /\ s[1] = "-" THEN 0 - mag ELSE mag)
        ELSE NoneV

RECURSIVE StripZeros(_)
StripZeros(s) ==
    IF Len(s) > 1 /\ s[Len(s)] = "0" THEN StripZeros(SubSeq(s, 1, Len(s) - 1)) ELSE s

\* str(x) of a float: shortest decimal form, always with a fractional digit
FormatFloat(n) ==
    LET mag == IF n < 0 THEN 0 - n ELSE n
        frac == IntToDigits(Unit + (mag % Unit))
    IN  (IF n < 0 THEN <<"-">> ELSE <<>>)
        \o IntToDigits(mag \div Unit) \o <<".">> \o StripZeros(Tail(frac))

\* what an f-string {value} yields
Format(v) ==
    IF IsStr(v) THEN v.s
    ELSE IF IsFloat(v) THEN FormatFloat(v.n)
    ELSE <<"N", "o", "n", "e">>

-----------------------------------------------------------------------------
(* datetime.strptime(date_str, '%Y-%m-%d') *)

IsLeap(y) == (y % 4 = 0 /\ y % 100 # 0) \/ y % 400 = 0

DaysInMonth(y, m) ==
    IF m = 2 THEN (IF IsLeap(y) THEN 29 ELSE 28)
    ELSE IF m \in {4, 6, 9, 11} THEN 30 ELSE 31

\* the directive %m: 1[0-2] | 0[1-9] | [1-9]
IsMonthField(f) ==
    \/ Len(f) = 2 /\ f[1] = "1" /\ f[2] \in {"0", "1", "2"}
    \/ Len(f) = 2 /\ f[1] = "0" /\ IsDigit(f[2]) /\ f[2] # "0"
    \/ Len(f) = 1 /\ IsDigit(f[1]) /\ f[1] # "0"

\* the directive %d: 3[0-1] | [1-2]\d | 0[1-9] | [1-9] | " "[1-9]
IsDayField(f) ==
    \/ Len(f) = 2 /\ f[1] = "3" /\ f[2] \in {"0", "1"}
    \/ Len(f) = 2 /\ f[1] \in {"1", "2"} /\ IsDigit(f[2])
    \/ Len(f) = 2 /\ f[1] \in {"0", " "} /\ IsDigit(f[2]) /\ f[2] # "0"
    \/ Len(f) = 1 /\ IsDigit(f[1]) /\ f[1] # "0"

\* TRUE iff strptime returns a date, FALSE iff it raises ValueError
StrptimeOk(s) ==
    \E lm \in {1, 2} :
        /\ Len(s) >= 7 + lm
        /\ AllDigits(SubSeq(s, 1, 4))
        /\ s[5] = "-"
        /\ IsMonthField(SubSeq(s, 6, 5 + lm))
        /\ s[6 + lm] = "-"
        /\ IsDayField(SubSeq(s, 7 + lm, Len(s)))
        /\ LET y == DigitsVal(SubSeq(s, 1, 4))
               m == DigitsVal(SubSeq(s, 6, 5 + lm))
               d == DigitsVal(Strip(SubSeq(s, 7 + lm, Len(s))))
           IN  y >= 1 /\ d <= DaysInMonth(y, m)

-----------------------------------------------------------------------------
(* DataProcessor: field normalization *)

\* clean_product_name(product_name)
clean_product_name(product_name) ==
    LET cleaned == Replace(product_name, ",", <<" ">>)
    IN  JoinWords(SplitWords(cleaned, <<>>))

\* clean_numeric_value(value): value.replace raises AttributeError on a float
\* or None, and the except clause turns that into None
clean_numeric_value(value) ==
    IF ~IsStr(value) THEN NoneV
    ELSE LET cleaned == Strip(Replace(value.s, ",", <<>>))
         IN  IF StartsWith(cleaned, "-") THEN NoneV
             ELSE ParseFloat(cleaned)

-----------------------------------------------------------------------------
(* DataProcessor.validate_record *)

EmptyStr == StrV(<<>>)

MsgTransactionID == <<"TransactionID must start with 'T'">>
MsgCustomerID == <<"Missing CustomerID">>
MsgRegion == <<"Missing Region">>
MsgQuantity == <<"Invalid Quantity: ">>
MsgUnitPrice == <<"Invalid UnitPrice: ">>
MsgDate == <<"Invalid Date format: ">>
MsgProductID == <<"Invalid ProductID: ">>
MsgValid == <<"Valid">>

Result(ok, msg) == [is_valid |-> ok, error_msg |-> msg]

\* validate_record with `< 0` in place of `<= 0` in the two numeric rules
validate_record_zero_allowed(record) ==
    LET quantity == clean_numeric_value(Get(record, "Quantity", StrV(<<"0">>)))
        unit_price == clean_numeric_value(Get(record, "UnitPrice", StrV(<<"0">>)))
        date_str == Get(record, "Date", EmptyStr).s
        product_id == Get(record, "ProductID", EmptyStr).s
    IN  IF ~StartsWith(Get(record, "TransactionID", EmptyStr).s, "T")
        THEN Result(FALSE, MsgTransactionID)
        ELSE IF Strip(Get(record, "CustomerID", EmptyStr).s) = <<>>
        THEN Result(FALSE, MsgCustomerID)
        ELSE IF Strip(Get(record, "Region", EmptyStr).s) = <<>>
        THEN Result(FALSE, MsgRegion)
        ELSE IF IsNone(quantity) \/ quantity.n < 0
        THEN Result(FALSE, MsgQuantity \o Format(Get(record, "Quantity", NoneV)))
        ELSE IF IsNone(unit_price) \/ unit_price.n < 0
        THEN Result(FALSE, MsgUnitPrice \o Format(Get(record, "UnitPrice", NoneV)))
        ELSE IF ~StrptimeOk(date_str)
        THEN Result(FALSE, MsgDate \o date_str)
        ELSE IF ~StartsWith(product_id, "P")
        THEN Result(FALSE, MsgProductID \o product_id)
        ELSE Result(TRUE, MsgValid)

\* validate_record without the two numeric rules
validate_record_no_numeric_rules(record) ==
    LET date_str == Get(record, "Date", EmptyStr).s
        product_id == Get(record, "ProductID", EmptyStr).s
    IN  IF ~StartsWith(Get(record, "TransactionID", EmptyStr).s, "T")
        THEN Result(FALSE, MsgTransactionID)
        ELSE IF Strip(Get(record, "CustomerID", EmptyStr).s) = <<>>
        THEN Result(FALSE, MsgCustomerID)
        ELSE IF Strip(Get(record, "Region", EmptyStr).s) = <<>>
        THEN Result(FALSE, MsgRegion)
        ELSE IF ~StrptimeOk(date_str)
        THEN Result(FALSE, MsgDate \o date_str)
        ELSE IF ~StartsWith(product_id, "P")
        THEN Result(FALSE, MsgProductID \o product_id)
        ELSE Result(TRUE, MsgValid)

\* validate_record(record) -> (is_valid, error_message)
validate_record(record) ==
    LET quantity == clean_numeric_value(Get(record, "Quantity", StrV(<<"0">>)))
        unit_price == clean_numeric_value(Get(record, "UnitPrice", StrV(<<"0">>)))
        date_str == Get(record, "Date", EmptyStr).s
        product_id == Get(record, "ProductID", EmptyStr).s
    IN  IF ~StartsWith(Get(record, "TransactionID", EmptyStr).s, "T")
        THEN Result(FALSE, MsgTransactionID)
        ELSE IF Strip(Get(record, "CustomerID", EmptyStr).s) = <<>>
        THEN Result(FALSE, MsgCustomerID)
        ELSE IF Strip(Get(record, "Region", EmptyStr).s) = <<>>
        THEN Result(FALSE, MsgRegion)
        ELSE IF IsNone(quantity) \/ quantity.n <= 0
        THEN Result(FALSE, MsgQuantity \o Format(Get(record, "Quantity", NoneV)))
        ELSE IF IsNone(unit_price) \/ unit_price.n <= 0
        THEN Result(FALSE, MsgUnitPrice \o Format(Get(record, "UnitPrice", NoneV)))
        ELSE IF ~StrptimeOk(date_str)
        THEN Result(FALSE, MsgDate \o date_str)
        ELSE IF ~StartsWith(product_id, "P")
        THEN Result(FALSE, MsgProductID \o product_id)
        ELSE Result(TRUE, MsgValid)

-----------------------------------------------------------------------------
(* DataProcessor.clean_and_validate_records: the body of the for loop *)

\* quantity * unit_price of two floats
Mul(a, b) ==
    LET ah == a \div Cent
        al == a % Cent
        bh == b \div Cent
        bl == b % Cent
    IN  ah * bh + ((ah * bl + al * bh) * Cent + al * bl) \div Unit

\* the lists after an iteration that keeps an invalid record only when no
\* equal record is in the list yet
clean_iteration_dedup(valid, invalid, record) ==
    IF DOMAIN record = {} THEN [valid |-> valid, invalid |-> invalid]
    ELSE
    LET named == Put(record, "ProductName",
                     StrV(clean_product_name(Get(record, "ProductName", EmptyStr).s)))
        quantity == clean_numeric_value(Get(named, "Quantity", StrV(<<"0">>)))
        unit_price == clean_numeric_value(Get(named, "UnitPrice", StrV(<<"0">>)))
        cleaned_record == Put(Put(named, "Quantity", quantity), "UnitPrice", unit_price)
        res == validate_record(cleaned_record)
        bad == Put(cleaned_record, "Error", StrV(res.error_msg))
    IN  IF res.is_valid /\ ~IsNone(quantity) /\ ~IsNone(unit_price)
        THEN [valid |-> Append(valid, Put(cleaned_record, "TotalPrice",
                                          FloatV(Mul(quantity.n, unit_price.n)))),
              invalid |-> invalid]
        ELSE [valid |-> valid,
              invalid |-> IF \E j \in 1..Len(invalid) : invalid[j] = bad
                          THEN invalid ELSE Append(invalid, bad)]

\* (valid_records, invalid_records) after one iteration on `record`
clean_iteration(valid, invalid, record) ==
    IF DOMAIN record = {} THEN [valid |-> valid, invalid |-> invalid]
    ELSE
    LET named == Put(record, "ProductName",
                     StrV(clean_product_name(Get(record, "ProductName", EmptyStr).s)))
        quantity == clean_numeric_value(Get(named, "Quantity", StrV(<<"0">>)))
        unit_price == clean_numeric_value(Get(named, "UnitPrice", StrV(<<"0">>)))
        cleaned_record == Put(Put(named, "Quantity", quantity), "UnitPrice", unit_price)
        res == validate_record(cleaned_record)
    IN  IF res.is_valid /\ ~IsNone(quantity) /\ ~IsNone(unit_price)
        THEN [valid |-> Append(valid, Put(cleaned_record, "TotalPrice",
                                          FloatV(Mul(quantity.n, unit_price.n)))),
              invalid |-> invalid]
        ELSE [valid |-> valid,
              invalid |-> Append(invalid, Put(cleaned_record, "Error",
                                              StrV(res.error_msg)))]

-----------------------------------------------------------------------------
(* Inputs of the cleaning pipeline: raw records as FileHandler.parse_line   *)
(* builds them, eight text fields each, and the empty dict                  *)

EmptyRecord == [k \in {} |-> NoneV]

RawRecord(tid, date, pid, name, qty, price, cid, region) ==
    [TransactionID |-> StrV(tid), Date |-> StrV(date), ProductID |-> StrV(pid),
     ProductName |-> StrV(name), Quantity |-> StrV(qty), UnitPrice |-> StrV(price),
     CustomerID |-> StrV(cid), Region |-> StrV(region)]

TransactionIDs == {<<"T", "1", "0", "0">>, <<"X", "1">>}

Dates ==
    {<<"2", "0", "2", "4", "-", "0", "3", "-", "1", "5">>,
     <<"0", "3", "/", "1", "5", "/", "2", "0", "2", "4">>,
     <<"2", "0", "2", "4", "-", "1", "3", "-", "0", "1">>,
     <<"2", "0", "2", "4", "-", "1", "-", "5">>,
     <<"2", "0", "2", "4", "-", "0", "1", "-", " ", "5">>,
     <<"2", "0", "2", "3", "-", "0", "2", "-", "2", "9">>,
     <<"2", "0", "2", "4", "-", "0", "2", "-", "2", "9">>,
     <<"2", "0", "2", "4", "/", "0", "3", "/", "1", "5">>,
     <<>>}

ProductIDs == {<<"P", "5", "5">>, <<"X", "9">>}

ProductNames ==
    {<<"W", "i", "r", "e", "l", "e", "s", "s", ",", " ", "M", "o", "u", "s", "e">>,
     <<"M", "o", "u", "s", "e">>}

Quantities ==
    {<<"3">>, <<"0">>, <<"-", "0">>, <<"-", "5">>, <<" ", "-", "5">>,
     <<"a", "b", "c">>, <<"1", ",", "2", "5", "0", ".", "5", "0">>, <<"0", ".", "0">>}

UnitPrices ==
    {<<"1", "9", ".", "9", "9">>, <<"1", "0">>, <<"0">>, <<"-", "0">>,
     <<"-", ",", "5">>, <<"x">>}

CustomerIDs == {<<"C", "9">>, <<" ">>}

Regions == {<<"W", "e", "s", "t">>, <<>>}

AllRawRecords ==
    {RawRecord(tid, date, pid, name, qty, price, cid, region) :
        tid \in TransactionIDs, date \in Dates, pid \in ProductIDs,
        name \in ProductNames, qty \in Quantities, price \in UnitPrices,
        cid \in CustomerIDs, region \in Regions}

\* the valid record of the specification's example, and records breaking
\* one or two rules
ExampleRecord ==
    RawRecord(<<"T", "1", "0", "0">>,
              <<"2", "0", "2", "4", "-", "0", "3", "-", "1", "5">>,
              <<"P", "5", "5">>,
              <<"W", "i", "r", "e", "l", "e", "s", "s", ",", " ", "M", "o", "u", "s", "e">>,
              <<"3">>, <<"1", "9", ".", "9", "9">>, <<"C", "9">>,
              <<"W", "e", "s", "t">>)

SampleRecords ==
    {ExampleRecord,
     [ExampleRecord EXCEPT !.TransactionID = StrV(<<"X", "1">>),
                           !.Quantity = StrV(<<"-", "5">>)],
     [ExampleRecord EXCEPT !.TransactionID = StrV(<<"T", "2">>),
                           !.Quantity = StrV(<<"a", "b", "c">>)],
     [ExampleRecord EXCEPT !.TransactionID = StrV(<<"T", "3">>),
                           !.Date = StrV(<<"2", "0", "2", "4", "-", "1", "3", "-", "0", "1">>)],
     EmptyRecord}

RECURSIVE SeqsUpTo(_, _)
SeqsUpTo(S, n) ==
    IF n = 0 THEN {<<>>}
    ELSE LET shorter == SeqsUpTo(S, n - 1)
         IN  shorter \cup {Append(q, x) : q \in {r \in shorter : Len(r) = n - 1}, x \in S}

InputLists == SeqsUpTo(SampleRecords, MaxRecords) \cup {<<r>> : r \in AllRawRecords}

NoOutcome == Result(FALSE, <<>>)
NoAnalysis == <<>>
NoReport == <<>>
NoFile == [exists |-> FALSE, content |-> <<>>]
FileOf(content) == [exists |-> TRUE, content |-> content]

-----------------------------------------------------------------------------
(* The cleaning operations *)

Init ==
    /\ pc = "start"
    /\ raw_records \in InputLists
    /\ idx = 1
    /\ valid_records = <<>>
    /\ invalid_records = <<>>
    /\ outcome = NoOutcome
    /\ analysis = NoAnalysis
    /\ report = NoReport
    /\ input_file = NoFile
    /\ lines = <<>>
    /\ enriched_records = <<>>
    /\ final_report = NoReport
    /\ lookups = <<>>

\* a direct call validate_record(record) on the first input record
ValidateRecord ==
    /\ pc = "start"
    /\ Len(raw_records) = 1
    /\ outcome' = validate_record(raw_records[1])
    /\ pc' = "validated"
    /\ UNCHANGED <<raw_records, idx, valid_records, invalid_records, analysis, report,
                   input_file, lines, enriched_records, final_report, lookups>>

\* one iteration of the loop of clean_and_validate_records
CleanIteration ==
    /\ pc \in {"start", "clean"}
    /\ idx <= Len(raw_records)
    /\ LET next == clean_iteration(valid_records, invalid_records, raw_records[idx])
       IN  /\ valid_records' = next.valid
           /\ invalid_records' = next.invalid
    /\ idx' = idx + 1
    /\ pc' = "clean"
    /\ UNCHANGED <<raw_records, outcome, analysis, report,
                   input_file, lines, enriched_records, final_report, lookups>>

\* the loop is over: return valid_records, invalid_records
CleanReturn ==
    /\ pc \in {"start", "clean"}
    /\ idx > Len(raw_records)
    /\ pc' = "cleaned"
    /\ UNCHANGED <<raw_records, idx, valid_records, invalid_records, outcome,
                   analysis, report,
                   input_file, lines, enriched_records, final_report, lookups>>

Next == ValidateRecord \/ CleanIteration \/ CleanReturn

Spec == Init /\ [][Next]_vars

-----------------------------------------------------------------------------
(* The seven business rules, read off a raw record's text fields *)

NonEmpty(record) == DOMAIN record # {}

\* the text is a number strictly greater than zero (commas and surrounding
\* whitespace ignored)
PositiveNumber(text) ==
    LET v == ParseFloat(Replace(text, ",", <<>>))
    IN  IsFloat(v) /\ v.n > 0

\* the text is a well-formed number that is zero or negative
NonPositiveNumber(text) ==
    LET v == ParseFloat(Replace(text, ",", <<>>))
    IN  IsFloat(v) /\ v.n <= 0

\* exactly YYYY-MM-DD, naming a real calendar date
IsIsoDate(s) ==
    /\ Len(s) = 10
    /\ \A i \in {1, 2, 3, 4, 6, 7, 9, 10} : IsDigit(s[i])
    /\ s[5] = "-" /\ s[8] = "-"
    /\ LET y == DigitsVal(SubSeq(s, 1, 4))
           m == DigitsVal(SubSeq(s, 6, 7))
           d == DigitsVal(SubSeq(s, 9, 10))
       IN  y >= 1 /\ m \in 1..12 /\ d >= 1 /\ d <= DaysInMonth(y, m)

RuleHolds(k, r) ==
    CASE k = 1 -> StartsWith(r.TransactionID.s, "T")
      [] k = 2 -> Strip(r.CustomerID.s) # <<>>
      [] k = 3 -> Strip(r.Region.s) # <<>>
      [] k = 4 -> PositiveNumber(r.Quantity.s)
      [] k = 5 -> PositiveNumber(r.UnitPrice.s)
      [] k = 6 -> IsIsoDate(r.Date.s)
      [] k = 7 -> StartsWith(r.ProductID.s, "P")

Rules == 1..7

ViolatedRules(r) == {k \in Rules : ~RuleHolds(k, r)}

SatisfiesAllRules(r) == ViolatedRules(r) = {}

FirstViolated(r) == CHOOSE k \in ViolatedRules(r) : \A j \in ViolatedRules(r) : k <= j

RuleMsg == <<MsgTransactionID, MsgCustomerID, MsgRegion, MsgQuantity,
             MsgUnitPrice, MsgDate, MsgProductID>>

\* the message names rule k
NamesRule(msg, k) == msg # <<>> /\ <<msg[1]>> = RuleMsg[k]

\* the raw text of the field rule k looks at
RuleField(k, r) ==
    CASE k = 4 -> r.Quantity.s
      [] k = 5 -> r.UnitPrice.s
      [] k = 6 -> r.Date.s
      [] k = 7 -> r.ProductID.s
      [] OTHER -> <<>>

\* the non-empty records the loop has handled so far
RECURSIVE NonEmptyOf(_)
NonEmptyOf(list) ==
    IF list = <<>> THEN <<>>
    ELSE (IF NonEmpty(Head(list)) THEN <<Head(list)>> ELSE <<>>) \o NonEmptyOf(Tail(list))

Processed == NonEmptyOf(SubSeq(raw_records, 1, idx - 1))

\* the fields cleaning leaves as they are
Identity(r) ==
    [k \in {"TransactionID", "Date", "ProductID", "CustomerID", "Region"} |-> r[k]]

Identities(list) == [i \in 1..Len(list) |-> Identity(list[i])]

\* c is a and b interleaved, each in its own order
RECURSIVE IsShuffle(_, _, _)
IsShuffle(a, b, c) ==
    IF c = <<>> THEN a = <<>> /\ b = <<>>
    ELSE \/ a # <<>> /\ Head(a) = Head(c) /\ IsShuffle(Tail(a), b, Tail(c))
         \/ b # <<>> /\ Head(b) = Head(c) /\ IsShuffle(a, Tail(b), Tail(c))

\* this step is an iteration of the cleaning loop on a non-empty record
IteratesOn(r) ==
    /\ pc \in {"start", "clean"}
    /\ idx <= Len(raw_records)
    /\ idx' = idx + 1
    /\ r = raw_records[idx]
    /\ NonEmpty(r)

-----------------------------------------------------------------------------
(* Claims *)

\* C1: every non-empty raw record handled so far is in exactly one of valid
\* and invalid; len(valid) + len(invalid) is the number of non-empty records
\* handled; both lists keep the input order, duplicates included.
C1_PartitionInOrder ==
    /\ Len(valid_records) + Len(invalid_records) = Len(Processed)
    /\ IsShuffle(Identities(valid_records), Identities(invalid_records),
                 Identities(Processed))

\* a finished run on a list with an empty record between two equal records
C1_Witness ==
    /\ pc = "cleaned"
    /\ Len(raw_records) = 3
    /\ raw_records[1] = raw_records[3]
    /\ NonEmpty(raw_records[1])
    /\ raw_records[2] = EmptyRecord
    /\ Len(valid_records) + Len(invalid_records) = 2

\* C2 (as claimed): an iteration on a raw record that satisfies all seven
\* rules appends it to valid with the cleaned product name and
\* TotalPrice = quantity * unit_price, and leaves invalid alone.
C2_SatisfyingRecordRoutedToValid ==
    [][\A r \in {raw_records[i] : i \in 1..Len(raw_records)} :
         (IteratesOn(r) /\ SatisfiesAllRules(r)) =>
            /\ invalid_records' = invalid_records
            /\ Len(valid_records') = Len(valid_records) + 1
            /\ LET v == valid_records'[Len(valid_records')]
                   q == ParseFloat(Replace(r.Quantity.s, ",", <<>>)).n
                   p == ParseFloat(Replace(r.UnitPrice.s, ",", <<>>)).n
               IN  /\ Identity(v) = Identity(r)
                   /\ v.ProductName = StrV(clean_product_name(r.ProductName.s))
                   /\ v.TotalPrice = FloatV(Mul(q, p))]_vars

\* C3 (as claimed): validate_record on a record that violates several rules
\* reports the reason of the lowest-numbered violated rule.
C3_LowestViolatedRuleReported ==
    (pc = "validated" /\ NonEmpty(raw_records[1])
        /\ Cardinality(ViolatedRules(raw_records[1])) >= 2)
    => /\ ~outcome.is_valid
       /\ NamesRule(outcome.error_msg, FirstViolated(raw_records[1]))

\* how many of the records have a quantity and a unit price > 0
RECURSIVE CountPositive(_)
CountPositive(list) ==
    IF list = <<>> THEN 0
    ELSE (IF PositiveNumber(Head(list).Quantity.s) /\ PositiveNumber(Head(list).UnitPrice.s)
          THEN 1 ELSE 0) + CountPositive(Tail(list))

\* C4: every record in valid has a numeric Quantity > 0, a numeric
\* UnitPrice > 0 and TotalPrice = Quantity * UnitPrice, and valid holds no
\* more records than the inputs with a quantity and a price > 0.
C4_ValidHasPositiveNumbers ==
    /\ \A j \in 1..Len(valid_records) :
          LET v == valid_records[j]
          IN  /\ IsFloat(v.Quantity) /\ v.Quantity.n > 0
              /\ IsFloat(v.UnitPrice) /\ v.UnitPrice.n > 0
              /\ v.TotalPrice = FloatV(Mul(v.Quantity.n, v.UnitPrice.n))
    /\ Len(valid_records) <= CountPositive(Processed)

\* a finished run on a record whose only defect is a quantity of zero
C4_Witness ==
    /\ pc = "cleaned"
    /\ Len(raw_records) = 1
    /\ NonEmpty(raw_records[1])
    /\ ViolatedRules(raw_records[1]) = {4}
    /\ NonPositiveNumber(raw_records[1].Quantity.s)
    /\ valid_records = <<>>
    /\ Len(invalid_records) = 1

\* C5: validate_record rejects a record whose Quantity or UnitPrice text is
\* zero or negative, with the quantity reason when rules 1-3 hold and with
\* the unit-price reason when rules 1-4 hold; the pipeline never puts such a
\* record in valid.
C5_NonPositiveRejected ==
    /\ (pc = "validated" /\ NonEmpty(raw_records[1])) =>
          LET r == raw_records[1]
              bad_qty == NonPositiveNumber(r.Quantity.s)
              bad_price == NonPositiveNumber(r.UnitPrice.s)
          IN  /\ (bad_qty \/ bad_price) => ~outcome.is_valid
              /\ (bad_qty /\ \A k \in 1..3 : RuleHolds(k, r))
                    => outcome.error_msg = MsgQuantity \o r.Quantity.s
              /\ (bad_price /\ \A k \in 1..4 : RuleHolds(k, r))
                    => outcome.error_msg = MsgUnitPrice \o r.UnitPrice.s
    /\ \A i \in 1..(idx - 1) :
          (NonEmpty(raw_records[i])
             /\ (NonPositiveNumber(raw_records[i].Quantity.s)
                 \/ NonPositiveNumber(raw_records[i].UnitPrice.s)))
          => \A j \in 1..Len(valid_records) :
                Identity(valid_records[j]) # Identity(raw_records[i])

\* validate_record has answered on a record with Quantity "-0" that passes
\* rules 1-3
C5_Witness ==
    /\ pc = "validated"
    /\ NonEmpty(raw_records[1])
    /\ raw_records[1].Quantity.s = <<"-", "0">>
    /\ \A k \in 1..3 : RuleHolds(k, raw_records[1])
    /\ ~outcome.is_valid
    /\ NamesRule(outcome.error_msg, 4)

\* C6 (as claimed): when rules 1-5 hold, validate_record lets the Date pass
\* only when it is exactly YYYY-MM-DD naming a real calendar date, and
\* reports the date reason for every other text.
C6_OnlyIsoDatesAccepted ==
    (pc = "validated" /\ NonEmpty(raw_records[1])
        /\ \A k \in 1..5 : RuleHolds(k, raw_records[1]))
    => (NamesRule(outcome.error_msg, 6) <=> ~IsIsoDate(raw_records[1].Date.s))

\* C7 (as claimed): when an iteration routes a record to invalid with the
\* reason of rule 4, 5, 6 or 7, the Error message is that rule's text
\* followed by the field's raw value as it appeared in the input.
C7_ErrorEchoesRawValue ==
    [][\A r \in {raw_records[i] : i \in 1..Len(raw_records)} :
         (IteratesOn(r) /\ Len(invalid_records') = Len(invalid_records) + 1) =>
            LET msg == invalid_records'[Len(invalid_records')].Error.s
            IN  \A k \in 4..7 :
                   NamesRule(msg, k) => msg = RuleMsg[k] \o RuleField(k, r)]_vars

-----------------------------------------------------------------------------
(* DataProcessor.analyze_sales.  A rollup dict is a sequence of entries     *)
(* [key, val] in insertion order; sums and totals are counted in 1/Unit.    *)

TopN == 10                 \* sorted_products[:10], sorted_customers[:10]
ReportTopCustomers == 5    \* analysis.get('top_customers', [])[:5]

Entry(k, v) == [key |-> k, val |-> v]

HasKey(d, k) == \E i \in 1..Len(d) : d[i].key = k

IndexOf(d, k) == CHOOSE i \in 1..Len(d) : d[i].key = k

\* the float a record holds under `field`, 0 when the key is absent
Num(record, field) == Get(record, field, FloatV(0)).n

\* round(a / b) to the nearest integer, ties to even
RoundDiv(a, b) ==
    LET q == a \div b
        rem == a % b
    IN  IF 2 * rem > b \/ (2 * rem = b /\ q % 2 = 1) THEN q + 1 ELSE q

\* round(x, 2)
Round2(n) == RoundDiv(n, Cent) * Cent

RECURSIVE SumOf(_, _)
SumOf(records, field) ==
    IF records = <<>> THEN 0
    ELSE Num(Head(records), field) + SumOf(Tail(records), field)

Distinct(records, field) ==
    {Get(records[i], field, NoneV) : i \in 1..Len(records)}

\* the summary statistics
summary_of(records) ==
    LET total_sales == SumOf(records, "TotalPrice")
        total_quantity == SumOf(records, "Quantity")
    IN  [total_records |-> Len(records),
         total_sales |-> Round2(total_sales),
         total_quantity |-> total_quantity \div Unit,
         average_unit_price |->
            IF total_quantity > 0
            THEN RoundDiv(total_sales * Cent, total_quantity) * Cent
            ELSE 0,
         unique_customers |-> Cardinality(Distinct(records, "CustomerID")),
         unique_products |-> Cardinality(Distinct(records, "ProductID"))]

\* region_sales with `=` in place of `+=` on total_sales
RECURSIVE region_sales_overwrite(_, _)
region_sales_overwrite(records, acc) ==
    IF records = <<>> THEN acc
    ELSE LET record == Head(records)
             region == Get(record, "Region", NoneV)
             opened == IF HasKey(acc, region) THEN acc
                       ELSE Append(acc, Entry(region, [total_sales |-> 0,
                                                       total_quantity |-> 0,
                                                       transactions |-> 0]))
             i == IndexOf(opened, region)
             old == opened[i].val
         IN  region_sales_overwrite(Tail(records),
                [opened EXCEPT ![i].val =
                    [total_sales |-> Num(record, "TotalPrice"),
                     total_quantity |-> old.total_quantity + Num(record, "Quantity"),
                     transactions |-> old.transactions + 1]])

\* region_sales after the loop over `records`, started from `acc`
RECURSIVE region_sales(_, _)
region_sales(records, acc) ==
    IF records = <<>> THEN acc
    ELSE LET record == Head(records)
             region == Get(record, "Region", NoneV)
             opened == IF HasKey(acc, region) THEN acc
                       ELSE Append(acc, Entry(region, [total_sales |-> 0,
                                                       total_quantity |-> 0,
                                                       transactions |-> 0]))
             i == IndexOf(opened, region)
             old == opened[i].val
         IN  region_sales(Tail(records),
                [opened EXCEPT ![i].val =
                    [total_sales |-> old.total_sales + Num(record, "TotalPrice"),
                     total_quantity |-> old.total_quantity + Num(record, "Quantity"),
                     transactions |-> old.transactions + 1]])

\* product_sales after the loop over `records`, started from `acc`
RECURSIVE product_sales(_, _)
product_sales(records, acc) ==
    IF records = <<>> THEN acc
    ELSE LET record == Head(records)
             product_id == Get(record, "ProductID", NoneV)
             opened == IF HasKey(acc, product_id) THEN acc
                       ELSE Append(acc, Entry(product_id,
                                [product_name |-> Get(record, "ProductName", NoneV),
                                 total_sales |-> 0,
                                 total_quantity |-> 0,
                                 transactions |-> 0]))
             i == IndexOf(opened, product_id)
             old == opened[i].val
         IN  product_sales(Tail(records),
                [opened EXCEPT ![i].val =
                    [product_name |-> old.product_name,
                     total_sales |-> old.total_sales + Num(record, "TotalPrice"),
                     total_quantity |-> old.total_quantity + Num(record, "Quantity"),
                     transactions |-> old.transactions + 1]])

\* customer_sales after the loop over `records`, started from `acc`
RECURSIVE customer_sales(_, _)
customer_sales(records, acc) ==
    IF records = <<>> THEN acc
    ELSE LET record == Head(records)
             customer_id == Get(record, "CustomerID", NoneV)
             opened == IF HasKey(acc, customer_id) THEN acc
                       ELSE Append(acc, Entry(customer_id, [total_spent |-> 0,
                                                            transactions |-> 0]))
             i == IndexOf(opened, customer_id)
             old == opened[i].val
         IN  customer_sales(Tail(records),
                [opened EXCEPT ![i].val =
                    [total_spent |-> old.total_spent + Num(record, "TotalPrice"),
                     transactions |-> old.transactions + 1]])

\* date_sales after the loop over `records`, started from `acc`
RECURSIVE date_sales(_, _)
date_sales(records, acc) ==
    IF records = <<>> THEN acc
    ELSE LET record == Head(records)
             date == Get(record, "Date", NoneV)
             opened == IF HasKey(acc, date) THEN acc ELSE Append(acc, Entry(date, 0))
             i == IndexOf(opened, date)
         IN  date_sales(Tail(records),
                [opened EXCEPT ![i].val = @ + Num(record, "TotalPrice")])

\* a descending sort that puts a later entry before the earlier ones of equal k
RECURSIVE SortedDescUnstable(_)
SortedDescUnstable(items) ==
    IF items = <<>> THEN <<>>
    ELSE LET rest == SortedDescUnstable(SubSeq(items, 1, Len(items) - 1))
             x == items[Len(items)]
             before == Cardinality({i \in 1..Len(rest) : rest[i].k > x.k})
         IN  SubSeq(rest, 1, before) \o <<x>> \o SubSeq(rest, before + 1, Len(rest))

\* sorted(items, key=..., reverse=True) on entries [k, e]: descending by k,
\* entries of equal k in their original order (the sort is stable)
RECURSIVE SortedDesc(_)
SortedDesc(items) ==
    IF items = <<>> THEN <<>>
    ELSE LET rest == SortedDesc(SubSeq(items, 1, Len(items) - 1))
             x == items[Len(items)]
             before == Cardinality({i \in 1..Len(rest) : rest[i].k >= x.k})
         IN  SubSeq(rest, 1, before) \o <<x>> \o SubSeq(rest, before + 1, Len(rest))

\* ord(c) of the characters a date text may hold
CharTable == <<" ", "-", "/", "0", "1", "2", "3", "4", "5", "6", "7", "8", "9">>

Ord(c) == CHOOSE i \in 1..Len(CharTable) : CharTable[i] = c

\* a < b for two str
RECURSIVE StrLess(_, _)
StrLess(a, b) ==
    IF b = <<>> THEN FALSE
    ELSE IF a = <<>> THEN TRUE
    ELSE IF Head(a) = Head(b) THEN StrLess(Tail(a), Tail(b))
    ELSE Ord(Head(a)) < Ord(Head(b))

\* sorted(date_sales.items()): ascending by the date text (the keys differ)
RECURSIVE SortedByDate(_)
SortedByDate(items) ==
    IF items = <<>> THEN <<>>
    ELSE LET rest == SortedByDate(SubSeq(items, 1, Len(items) - 1))
             x == items[Len(items)]
             before == Cardinality({i \in 1..Len(rest) : StrLess(rest[i].key.s, x.key.s)})
         IN  SubSeq(rest, 1, before) \o <<x>> \o SubSeq(rest, before + 1, Len(rest))

\* items[:n]
Take(items, n) == SubSeq(items, 1, IF Len(items) < n THEN Len(items) ELSE n)

\* analysis['by_product']
by_product(records) ==
    LET sales == product_sales(records, <<>>)
        keyed == [i \in 1..Len(sales) |-> [k |-> sales[i].val.total_sales, e |-> sales[i]]]
        sorted_products == Take(SortedDesc(keyed), TopN)
    IN  [i \in 1..Len(sorted_products) |-> sorted_products[i].e]

\* analysis['top_customers']
top_customers(records) ==
    LET sales == customer_sales(records, <<>>)
        keyed == [i \in 1..Len(sales) |-> [k |-> sales[i].val.total_spent, e |-> sales[i]]]
        sorted_customers == Take(SortedDesc(keyed), TopN)
    IN  [i \in 1..Len(sorted_customers) |->
            [customer_id |-> sorted_customers[i].e.key,
             total_spent |-> sorted_customers[i].e.val.total_spent,
             transactions |-> sorted_customers[i].e.val.transactions]]

EmptyAnalysis == [k \in {} |-> NoneV]

\* analyze_sales that goes on past the empty-input test
analyze_sales_no_empty_test(records) ==
    [summary |-> summary_of(records),
     by_region |-> region_sales(records, <<>>),
     by_product |-> by_product(records),
     top_customers |-> top_customers(records),
     sales_trends |-> SortedByDate(date_sales(records, <<>>))]

\* analyze_sales(valid_records)
analyze_sales(records) ==
    IF records = <<>> THEN EmptyAnalysis
    ELSE [summary |-> summary_of(records),
          by_region |-> region_sales(records, <<>>),
          by_product |-> by_product(records),
          top_customers |-> top_customers(records),
          sales_trends |-> SortedByDate(date_sales(records, <<>>))]

-----------------------------------------------------------------------------
(* DataProcessor.generate_sales_report: the report is a sequence of lines,  *)
(* a line the sequence of its literal parts and formatted characters        *)

\* digits with a comma between groups of three
RECURSIVE Group(_)
Group(digits) ==
    IF Len(digits) <= 3 THEN digits
    ELSE Group(SubSeq(digits, 1, Len(digits) - 3)) \o <<",">>
         \o SubSeq(digits, Len(digits) - 2, Len(digits))

\* f"{x:,.2f}"
FormatMoney(n) ==
    LET cents == RoundDiv(n, Cent)
    IN  Group(IntToDigits(cents \div Cent)) \o <<".">> \o Tail(IntToDigits(Cent + (cents % Cent)))

\* f"{x:,}" of an int
FormatCount(k) == Group(IntToDigits(k))

\* f"{x:,}" of a float
FormatQuantity(n) ==
    Group(IntToDigits(n \div Unit)) \o <<".">> \o StripZeros(Tail(IntToDigits(Unit + (n % Unit))))

NoDataReport == <<"No data available for analysis">>

RECURSIVE RegionLines(_)
RegionLines(by_region) ==
    IF by_region = <<>> THEN <<>>
    ELSE LET e == Head(by_region)
         IN  <<Format(e.key) \o <<":">>,
               <<"  Total Sales: $">> \o FormatMoney(e.val.total_sales),
               <<"  Quantity Sold: ">> \o FormatQuantity(e.val.total_quantity),
               <<"  Transactions: ">> \o IntToDigits(e.val.transactions)>>
             \o RegionLines(Tail(by_region))

RECURSIVE ProductLines(_, _)
ProductLines(products, i) ==
    IF products = <<>> THEN <<>>
    ELSE LET e == Head(products)
         IN  <<IntToDigits(i) \o <<". ">> \o Format(e.key) \o <<" - ">>
                  \o Format(e.val.product_name),
               <<"   Sales: $">> \o FormatMoney(e.val.total_sales),
               <<"   Quantity: ">> \o FormatQuantity(e.val.total_quantity)>>
             \o ProductLines(Tail(products), i + 1)

RECURSIVE CustomerLines(_, _)
CustomerLines(customers, i) ==
    IF customers = <<>> THEN <<>>
    ELSE LET c == Head(customers)
         IN  <<IntToDigits(i) \o <<". Customer ">> \o Format(c.customer_id),
               <<"   Total Spent: $">> \o FormatMoney(c.total_spent),
               <<"   Transactions: ">> \o IntToDigits(c.transactions)>>
             \o CustomerLines(Tail(customers), i + 1)

\* generate_sales_report(analysis)
generate_sales_report(result) ==
    IF DOMAIN result = {} THEN NoDataReport
    ELSE <<<<"=== ">>, <<"SALES ANALYSIS REPORT">>, <<"=== ">>,
           <<"SUMMARY STATISTICS:">>, <<"--- ">>,
           <<"Total Valid Records: ">> \o IntToDigits(result.summary.total_records),
           <<"Total Sales: $">> \o FormatMoney(result.summary.total_sales),
           <<"Total Quantity Sold: ">> \o FormatCount(result.summary.total_quantity),
           <<"Average Unit Price: $">> \o FormatMoney(result.summary.average_unit_price),
           <<"Unique Customers: ">> \o IntToDigits(result.summary.unique_customers),
           <<"Unique Products: ">> \o IntToDigits(result.summary.unique_products),
           <<"REGION-WISE ANALYSIS:">>, <<"--- ">>>>
         \o RegionLines(result.by_region)
         \o <<<<"TOP SELLING PRODUCTS:">>, <<"--- ">>>>
         \o ProductLines(result.by_product, 1)
         \o <<<<"TOP CUSTOMERS:">>, <<"--- ">>>>
         \o CustomerLines(Take(result.top_customers, ReportTopCustomers), 1)

-----------------------------------------------------------------------------
(* Inputs of analyze_sales: the records validate_record accepts, in the     *)
(* form the valid branch of the cleaning loop gives them (lines 121-141)    *)

ValidRecordOf(record) ==
    LET named == Put(record, "ProductName",
                     StrV(clean_product_name(Get(record, "ProductName", EmptyStr).s)))
        quantity == clean_numeric_value(Get(named, "Quantity", StrV(<<"0">>)))
        unit_price == clean_numeric_value(Get(named, "UnitPrice", StrV(<<"0">>)))
        cleaned_record == Put(Put(named, "Quantity", quantity), "UnitPrice", unit_price)
    IN  Put(cleaned_record, "TotalPrice", FloatV(Mul(quantity.n, unit_price.n)))

Accepted(raws) == {ValidRecordOf(r) : r \in {x \in raws : validate_record(x).is_valid}}

Date0315 == <<"2", "0", "2", "4", "-", "0", "3", "-", "1", "5">>
Date0316 == <<"2", "0", "2", "4", "-", "0", "3", "-", "1", "6">>
Date1005 == <<"2", "0", "2", "4", "-", "1", "0", "-", "0", "5">>
Date205 == <<"2", "0", "2", "4", "-", "2", "-", "0", "5">>

\* a few sales across three regions, products and customers, with equal
\* totals, a product under two names and a product of three decimal places
SalesPool ==
    Accepted({
        RawRecord(<<"T", "1">>, Date0315, <<"P", "1">>, <<"M", "o", "u", "s", "e">>,
                  <<"1">>, <<"2">>, <<"C", "1">>, <<"W", "e", "s", "t">>),
        RawRecord(<<"T", "2">>, Date0315, <<"P", "2">>, <<"P", "a", "d">>,
                  <<"2">>, <<"1">>, <<"C", "2">>, <<"E", "a", "s", "t">>),
        RawRecord(<<"T", "3">>, Date1005, <<"P", "2">>, <<"P", "a", "d", ",", "X", "L">>,
                  <<"1">>, <<"1">>, <<"C", "1">>, <<"W", "e", "s", "t">>),
        RawRecord(<<"T", "4">>, Date205, <<"P", "1">>, <<"M", "o", "u", "s", "e">>,
                  <<"1", ".", "5">>, <<"0", ".", "2", "5">>, <<"C", "2">>,
                  <<"E", "a", "s", "t">>),
        RawRecord(<<"T", "5">>, Date0316, <<"P", "3">>, <<"K", "e", "y">>,
                  <<"3">>, <<"1">>, <<"C", "3">>, <<"W", "e", "s", "t">>),
        RawRecord(<<"T", "6">>, Date1005, <<"P", "3">>, <<"K", "e", "y">>,
                  <<"1">>, <<"2", ".", "5", "0">>, <<"C", "1">>,
                  <<"N", "o", "r", "t", "h">>)})

\* the i-th sale of a long list: product Pi bought once by customer Ci
Sale(i, price) ==
    ValidRecordOf(
        RawRecord(<<"T">> \o IntToDigits(i), Date0315, <<"P">> \o IntToDigits(i),
                  <<"I", "t", "e", "m">>, <<"1">>, price,
                  <<"C">> \o IntToDigits(i), <<"W", "e", "s", "t">>))

SalePrices == {<<"1">>, <<"2">>}

SaleTable == [i \in 1..MaxProducts |-> [price \in SalePrices |-> Sale(i, price)]]

\* n distinct products at the prices f, alone (again = 0) or followed by a
\* second sale of the first product
LongList(n, f, again) ==
    [i \in 1..n |-> SaleTable[i][f[i]]]
    \o (IF again = 0 THEN <<>> ELSE <<SaleTable[again][<<"2">>]>>)

ShortLists == SeqsUpTo(SalesPool, MaxValid)

-----------------------------------------------------------------------------
(* The analysis operations *)

InitAnalysis ==
    /\ pc = "analyze"
    /\ raw_records = <<>>
    /\ idx = 1
    /\ \/ valid_records \in ShortLists
       \/ \E n \in TopN..MaxProducts, again \in {0, 1} :
             \E f \in [1..n -> SalePrices] : valid_records = LongList(n, f, again)
    /\ invalid_records = <<>>
    /\ outcome = NoOutcome
    /\ analysis = NoAnalysis
    /\ report = NoReport
    /\ input_file = NoFile
    /\ lines = <<>>
    /\ enriched_records = <<>>
    /\ final_report = NoReport
    /\ lookups = <<>>

\* analyze_sales that sorts its argument in place by TotalPrice
AnalyzeSalesSortingInPlace ==
    /\ pc \in {"analyze", "analyzed"}
    /\ analysis' = analyze_sales(valid_records)
    /\ valid_records' =
          LET keyed == [i \in 1..Len(valid_records) |->
                          [k |-> Num(valid_records[i], "TotalPrice"),
                           e |-> valid_records[i]]]
              sorted_records == SortedDesc(keyed)
          IN  [i \in 1..Len(sorted_records) |-> sorted_records[i].e]
    /\ pc' = IF pc = "analyze" THEN "analyzed" ELSE "analyzed_again"
    /\ UNCHANGED <<raw_records, idx, invalid_records, outcome, report,
                   input_file, lines, enriched_records, final_report, lookups>>

\* a call analyze_sales(valid_records): the first one, or a second one on
\* the same list
AnalyzeSales ==
    /\ pc \in {"analyze", "analyzed"}
    /\ analysis' = analyze_sales(valid_records)
    /\ pc' = IF pc = "analyze" THEN "analyzed" ELSE "analyzed_again"
    /\ UNCHANGED <<raw_records, idx, valid_records, invalid_records, outcome, report,
                   input_file, lines, enriched_records, final_report, lookups>>

GenerateSalesReport ==
    /\ pc \in {"analyzed", "analyzed_again"}
    /\ report' = generate_sales_report(analysis)
    /\ pc' = "reported"
    /\ UNCHANGED <<raw_records, idx, valid_records, invalid_records, outcome, analysis,
                   input_file, lines, enriched_records, final_report, lookups>>

NextAnalysis == AnalyzeSales \/ GenerateSalesReport

SpecAnalysis == InitAnalysis /\ [][NextAnalysis]_vars

-----------------------------------------------------------------------------
(* Claims about analyze_sales and generate_sales_report *)

Analyzed == pc \in {"analyzed", "analyzed_again", "reported"}

\* the positions of the records whose `field` is `key`
GroupOf(records, field, key) ==
    {i \in 1..Len(records) : Get(records[i], field, NoneV) = key}

\* the sum of `field` over the records at the positions S
RECURSIVE SumAt(_, _, _)
SumAt(records, S, field) ==
    IF S = {} THEN 0
    ELSE LET i == CHOOSE x \in S : TRUE
         IN  Num(records[i], field) + SumAt(records, S \ {i}, field)

GroupSum(records, field, key, summed) ==
    SumAt(records, GroupOf(records, field, key), summed)

\* the position at which `key` is first met
FirstSeen(records, field, key) ==
    LET group == GroupOf(records, field, key)
    IN  CHOOSE i \in group : \A j \in group : i <= j

MinOf(a, b) == IF a < b THEN a ELSE b

\* C8: by_product has min(10, number of distinct product ids) entries, one
\* per product, by total sales descending, products of equal total sales in
\* the order their ids were first met (each entry against the next one), and
\* no product left out has a higher total than one listed.
C8_TopProductsRanked ==
    (Analyzed /\ valid_records # <<>>) =>
        LET bp == analysis.by_product
            pids == Distinct(valid_records, "ProductID")
            listed == {bp[i].key : i \in 1..Len(bp)}
            total == [i \in 1..Len(bp) |->
                        GroupSum(valid_records, "ProductID", bp[i].key, "TotalPrice")]
            first == [i \in 1..Len(bp) |->
                        FirstSeen(valid_records, "ProductID", bp[i].key)]
        IN  /\ Len(bp) = MinOf(TopN, Cardinality(pids))
            /\ listed \subseteq pids
            /\ Cardinality(listed) = Len(bp)
            /\ \A i \in 1..(Len(bp) - 1) :
                  \/ total[i] > total[i + 1]
                  \/ total[i] = total[i + 1] /\ first[i] < first[i + 1]
            /\ \A p \in pids \ listed :
                  LET left_out == GroupSum(valid_records, "ProductID", p, "TotalPrice")
                  IN  \A i \in 1..Len(bp) : left_out <= total[i]

\* more than ten products, two listed ones of equal total sales, and a
\* product left out that ties with the last one listed
C8_Witness ==
    /\ pc = "analyzed"
    /\ valid_records # <<>>
    /\ Cardinality(Distinct(valid_records, "ProductID")) > TopN
    /\ Len(analysis.by_product) = TopN
    /\ \E i \in 1..(TopN - 1) :
          analysis.by_product[i].val.total_sales
             = analysis.by_product[i + 1].val.total_sales
    /\ \E p \in Distinct(valid_records, "ProductID") :
          /\ \A i \in 1..TopN : analysis.by_product[i].key # p
          /\ GroupSum(valid_records, "ProductID", p, "TotalPrice")
                = analysis.by_product[TopN].val.total_sales

RECURSIVE TransactionsOf(_)
TransactionsOf(rollup) ==
    IF rollup = <<>> THEN 0
    ELSE Head(rollup).val.transactions + TransactionsOf(Tail(rollup))

\* C9: each by_region, by_product and top_customers entry reports the sum of
\* TotalPrice, the sum of Quantity and the number of the valid records of
\* its group, and the by_region transaction counts add up to
\* summary.total_records.
C9_RollupsMatchDirectSums ==
    (Analyzed /\ valid_records # <<>>) =>
        /\ \A i \in 1..Len(analysis.by_region) :
              LET e == analysis.by_region[i]
              IN  /\ e.val.total_sales
                        = GroupSum(valid_records, "Region", e.key, "TotalPrice")
                  /\ e.val.total_quantity
                        = GroupSum(valid_records, "Region", e.key, "Quantity")
                  /\ e.val.transactions
                        = Cardinality(GroupOf(valid_records, "Region", e.key))
                  /\ e.val.transactions > 0
        /\ \A i \in 1..Len(analysis.by_product) :
              LET e == analysis.by_product[i]
              IN  /\ e.val.total_sales
                        = GroupSum(valid_records, "ProductID", e.key, "TotalPrice")
                  /\ e.val.total_quantity
                        = GroupSum(valid_records, "ProductID", e.key, "Quantity")
                  /\ e.val.transactions
                        = Cardinality(GroupOf(valid_records, "ProductID", e.key))
                  /\ e.val.transactions > 0
        /\ \A i \in 1..Len(analysis.top_customers) :
              LET c == analysis.top_customers[i]
              IN  /\ c.total_spent
                        = GroupSum(valid_records, "CustomerID", c.customer_id, "TotalPrice")
                  /\ c.transactions
                        = Cardinality(GroupOf(valid_records, "CustomerID", c.customer_id))
                  /\ c.transactions > 0
        /\ TransactionsOf(analysis.by_region) = analysis.summary.total_records
        /\ analysis.summary.total_records = Len(valid_records)

\* two regions, and a region, a product and a customer of several sales
C9_Witness ==
    /\ pc = "analyzed"
    /\ valid_records # <<>>
    /\ Len(analysis.by_region) >= 2
    /\ \E i \in 1..Len(analysis.by_region) :
          analysis.by_region[i].val.transactions >= 2
    /\ \E i \in 1..Len(analysis.by_product) :
          analysis.by_product[i].val.transactions >= 2
    /\ \E i \in 1..Len(analysis.top_customers) :
          analysis.top_customers[i].transactions >= 2

\* C10: on an empty list analyze_sales returns the empty result, and
\* generate_sales_report turns that result into the "no data" text.
C10_EmptyInputGivesNoData ==
    /\ (Analyzed /\ valid_records = <<>>) => analysis = EmptyAnalysis
    /\ (pc = "reported" /\ valid_records = <<>>) => report = NoDataReport
    /\ (pc = "reported" /\ valid_records # <<>>) => report # NoDataReport

\* the report of an analysis of no records
C10_Witness ==
    /\ pc = "reported"
    /\ valid_records = <<>>
    /\ analysis = EmptyAnalysis
    /\ report = NoDataReport

-----------------------------------------------------------------------------
(* APIHandler (src/Utils/api_handler.py) and steps 5 and 6 of main.  What   *)
(* the product API does is the environment's choice: `lookups` gives, for   *)
(* each product id, the outcome of requests.get and response.json().        *)

SampleSize == 5            \* valid_records[:5]

\* a JSON list: a value of the response that is not hashable
ListV == [t |-> "list", s |-> <<>>, n |-> 0]

\* 200 with a category string, 200 with a list as category, another status
\* code, requests.RequestException
LookupOutcomes == {"ok", "ok_list_category", "status", "network"}

\* fetch_product_info(product_id) when the API answers with `answer`
fetch_product_info(product_id, answer) ==
    IF answer \in {"ok", "ok_list_category"}
    THEN [api_product_id |-> StrV(<<"data.id">>),
          title |-> StrV(<<"data.title">>),
          price |-> StrV(<<"data.price">>),
          category |-> IF answer = "ok" THEN StrV(<<"data.category">>) ELSE ListV,
          description |-> StrV(<<"data.description", "...">>),
          rating |-> StrV(<<"data.rating.rate">>)]
    ELSE NoneV

\* the ProductInfo of a record whose product is not in the cache
SentinelInfo(record) ==
    [title |-> record.ProductName,
     price |-> StrV(<<"N/A">>),
     category |-> StrV(<<"Unknown">>),
     description |-> StrV(<<"No additional information available">>),
     rating |-> StrV(<<"N/A">>)]

UniqueProductIds(records) == {records[i].ProductID : i \in 1..Len(records)}

\* product_info_cache after the fetch loop
ProductInfoCache(records, api) ==
    LET fetched == {id \in UniqueProductIds(records) :
                       fetch_product_info(id, api[id]) # NoneV}
    IN  [id \in fetched |-> fetch_product_info(id, api[id])]

\* a record with its ProductInfo
EnrichedRecord(record, cache) ==
    Put(record, "ProductInfo",
        IF record.ProductID \in DOMAIN cache
        THEN cache[record.ProductID]
        ELSE SentinelInfo(record))

RECURSIVE SelectSeqBy(_, _)
SelectSeqBy(records, keep) ==
    IF records = <<>> THEN <<>>
    ELSE (IF Head(records).ProductID \in keep THEN <<Head(records)>> ELSE <<>>)
         \o SelectSeqBy(Tail(records), keep)

\* enrich_products_data that leaves out the records whose lookup failed
enrich_products_data_skip_failed(records, api) ==
    LET product_info_cache == ProductInfoCache(records, api)
        kept == SelectSeqBy(records, DOMAIN product_info_cache)
    IN  [i \in 1..Len(kept) |-> EnrichedRecord(kept[i], product_info_cache)]

\* enrich_products_data(valid_records)
enrich_products_data(records, api) ==
    LET product_info_cache == ProductInfoCache(records, api)
    IN  [i \in 1..Len(records) |-> EnrichedRecord(records[i], product_info_cache)]

CategoryOf(record) ==
    Get(Get(record, "ProductInfo", <<>>), "category", StrV(<<"Unknown">>))

\* categories after the loop over enriched_records, started from `acc`;
\* `products` is the set of product ids
RECURSIVE category_sales(_, _)
category_sales(records, acc) ==
    IF records = <<>> THEN acc
    ELSE LET record == Head(records)
             category == CategoryOf(record)
             opened == IF HasKey(acc, category) THEN acc
                       ELSE Append(acc, Entry(category,
                                [total_sales |-> 0, total_quantity |-> 0,
                                 products |-> {}]))
             i == IndexOf(opened, category)
         IN  category_sales(Tail(records),
                [opened EXCEPT ![i].val =
                    [total_sales |-> @.total_sales + Num(record, "TotalPrice"),
                     total_quantity |-> @.total_quantity + Num(record, "Quantity"),
                     products |-> @.products \cup {record.ProductID}]])

\* `category not in categories` raises TypeError on a category that is not
\* hashable
CategoriesRaise(records) ==
    \E i \in 1..Len(records) : CategoryOf(records[i]) = ListV

\* get_product_categories(enriched_records), when it returns
get_product_categories(records) ==
    LET categories == category_sales(records, <<>>)
    IN  [i \in 1..Len(categories) |->
           Entry(categories[i].key,
                 [total_sales |-> categories[i].val.total_sales,
                  total_quantity |-> categories[i].val.total_quantity,
                  products |-> categories[i].val.products,
                  unique_products |-> Cardinality(categories[i].val.products)])]

\* steps 4-6 of main start from a non-empty valid list (line 86)
InitReporting ==
    /\ pc = "analyze"
    /\ raw_records = <<>>
    /\ idx = 1
    /\ valid_records \in SeqsUpTo(SalesPool, MaxEnriched) \ {<<>>}
    /\ invalid_records = <<>>
    /\ outcome = NoOutcome
    /\ analysis = NoAnalysis
    /\ report = NoReport
    /\ input_file = NoFile
    /\ lines = <<>>
    /\ enriched_records = <<>>
    /\ final_report = NoReport
    /\ lookups \in [UniqueProductIds(valid_records) -> LookupOutcomes]

\* step 5: the try block of main (lines 108-127)
EnrichStep ==
    /\ pc = "reported"
    /\ LET enriched == enrich_products_data(valid_records, lookups)
       IN  /\ enriched_records' = enriched
           /\ analysis' = IF CategoriesRaise(enriched) THEN analysis
                          ELSE Put(analysis, "product_categories",
                                   get_product_categories(enriched))
    /\ pc' = "enriched"
    /\ UNCHANGED <<raw_records, idx, valid_records, invalid_records, outcome, report,
                   input_file, lines, final_report, lookups>>

\* step 6: the comprehensive report (lines 133-145)
SaveReport ==
    /\ pc = "enriched"
    /\ final_report' =
          [cleaning_summary |-> [total_parsed |-> Len(raw_records),
                                 invalid_removed |-> Len(invalid_records),
                                 valid_kept |-> Len(valid_records)],
           analysis |-> analysis,
           sample_valid_records |-> Take(valid_records, SampleSize)]
    /\ pc' = "saved"
    /\ UNCHANGED <<raw_records, idx, valid_records, invalid_records, outcome, analysis,
                   report, input_file, lines, enriched_records, lookups>>

NextReporting == AnalyzeSales \/ GenerateSalesReport \/ EnrichStep \/ SaveReport

SpecReporting == InitReporting /\ [][NextReporting]_vars

-----------------------------------------------------------------------------
(* Claims about the enrichment step *)

CoreSections == {"summary", "by_region", "by_product", "top_customers", "sales_trends"}

LookupFailed(id) == lookups[id] \in {"status", "network"}

\* C11: the enrichment step leaves valid_records, invalid_records and the
\* five core sections of the analysis as they were, whatever the lookups
\* answer and also when the step raises; enriched_records then holds one
\* copy per valid record in the same order, each with the fields of its
\* record unchanged and a ProductInfo that is the sentinel exactly when the
\* lookup of its product failed.
C11_EnrichmentLeavesCoreAlone ==
    [][pc = "reported" /\ pc' = "enriched" =>
        /\ valid_records' = valid_records
        /\ invalid_records' = invalid_records
        /\ CoreSections \subseteq DOMAIN analysis'
        /\ \A k \in CoreSections : analysis'[k] = analysis[k]
        /\ Len(enriched_records') = Len(valid_records)
        /\ \A i \in 1..Len(valid_records) :
              LET record == valid_records[i]
                  copy == enriched_records'[i]
              IN  /\ DOMAIN copy = DOMAIN record \cup {"ProductInfo"}
                  /\ \A k \in DOMAIN record : copy[k] = record[k]
                  /\ LookupFailed(record.ProductID) =>
                        copy.ProductInfo = SentinelInfo(record)
                  /\ ~LookupFailed(record.ProductID) =>
                        /\ copy.ProductInfo # SentinelInfo(record)
                        /\ "api_product_id" \in DOMAIN copy.ProductInfo]_vars

\* an enrichment that raised after one lookup failed and another succeeded
C11_Witness ==
    /\ pc = "enriched"
    /\ "product_categories" \notin DOMAIN analysis
    /\ \E a, b \in DOMAIN lookups : lookups[a] = "network" /\ lookups[b] = "ok_list_category"
    /\ \E i \in 1..Len(enriched_records) :
          enriched_records[i].ProductInfo = SentinelInfo(valid_records[i])

-----------------------------------------------------------------------------
(* Steps 1 and 2 of main (src/main.py) with FileHandler.read_sales_file and *)
(* FileHandler.parse_line.  A file is the sequence of its lines, a line a   *)
(* sequence of characters that ends with a newline.  Steps 4 to 6 of main   *)
(* are the actions of NextReporting, entered at pc = "analyze".             *)

MaxLines == 3              \* most data lines of an input file
FieldCount == 8            \* len(fields) != 8

FieldNames == <<"TransactionID", "Date", "ProductID", "ProductName",
                "Quantity", "UnitPrice", "CustomerID", "Region">>

\* line.split(delimiter): `field` is the field being read
RECURSIVE Split(_, _, _)
Split(s, delimiter, field) ==
    IF s = <<>> THEN <<field>>
    ELSE IF Head(s) = delimiter
         THEN <<field>> \o Split(Tail(s), delimiter, <<>>)
         ELSE Split(Tail(s), delimiter, Append(field, Head(s)))

\* FileHandler.parse_line(line)
parse_line(line) ==
    IF Strip(line) = <<>> THEN NoneV
    ELSE LET fields == Split(Strip(line), "|", <<>>)
         IN  IF Len(fields) # FieldCount THEN NoneV
             ELSE [k \in {FieldNames[i] : i \in 1..FieldCount} |->
                     StrV(Strip(fields[CHOOSE i \in 1..FieldCount : FieldNames[i] = k]))]

\* FileHandler.read_sales_file(file_path): a missing file and a file without
\* lines both give ([], 0)
read_sales_file(file) ==
    IF ~file.exists \/ file.content = <<>>
    THEN [lines |-> <<>>, total_records |-> 0]
    ELSE [lines |-> file.content, total_records |-> Len(file.content) - 1]

\* raw_records after the loop over lines[1:]
RECURSIVE ParsedRecords(_)
ParsedRecords(rest) ==
    IF rest = <<>> THEN <<>>
    ELSE (IF parse_line(Head(rest)) # NoneV THEN <<parse_line(Head(rest))>> ELSE <<>>)
         \o ParsedRecords(Tail(rest))

RECURSIVE JoinFields(_)
JoinFields(fields) ==
    IF Len(fields) = 1 THEN fields[1]
    ELSE fields[1] \o <<"|">> \o JoinFields(Tail(fields))

\* the line of the file that holds the fields of a record
LineOf(record) ==
    JoinFields([i \in 1..FieldCount |-> record[FieldNames[i]].s]) \o <<"\n">>

HeaderLine == JoinFields([i \in 1..FieldCount |-> <<FieldNames[i]>>]) \o <<"\n">>

\* the example line, the same with blanks around a field, a line with a
\* negative quantity, a line of seven fields and a blank line
FileLines ==
    {LineOf(ExampleRecord),
     LineOf([ExampleRecord EXCEPT !.TransactionID = StrV(<<" ", "T", "7", " ">>)]),
     LineOf([ExampleRecord EXCEPT !.TransactionID = StrV(<<"T", "2">>),
                                  !.Quantity = StrV(<<"-", "5">>)]),
     <<"T", "3", "|", "|", "P", "1", "|", "x", "|", "1", "|", "1", "|", "C", "1", "\n">>,
     <<" ", "\n">>}

\* no file, an empty file, and a header followed by up to MaxLines lines
Files ==
    {NoFile, FileOf(<<>>)}
    \cup {FileOf(<<HeaderLine>> \o q) : q \in SeqsUpTo(FileLines, MaxLines)}

InitMain ==
    /\ pc = "main"
    /\ raw_records = <<>>
    /\ idx = 1
    /\ valid_records = <<>>
    /\ invalid_records = <<>>
    /\ outcome = NoOutcome
    /\ analysis = NoAnalysis
    /\ report = NoReport
    /\ input_file \in Files
    /\ lines = <<>>
    /\ enriched_records = <<>>
    /\ final_report = NoReport
    /\ lookups = <<>>

\* step 1 (lines 37-43): read the file, exit when it holds no record
ReadSalesFile ==
    /\ pc = "main"
    /\ LET read == read_sales_file(input_file)
       IN  /\ lines' = read.lines
           /\ pc' = IF read.total_records = 0 THEN "exit_no_records" ELSE "parse"
    /\ UNCHANGED <<raw_records, idx, valid_records, invalid_records, outcome, analysis,
                   report, input_file, enriched_records, final_report, lookups>>

\* step 2 (lines 49-58): parse the lines after the header, then call
\* clean_and_validate_records(raw_records)
ParseLines ==
    /\ pc = "parse"
    /\ raw_records' = ParsedRecords(Tail(lines))
    /\ idx' = 1
    /\ pc' = "clean"
    /\ UNCHANGED <<valid_records, invalid_records, outcome, analysis, report,
                   input_file, lines, enriched_records, final_report, lookups>>

\* lines 86-92: exit when no record is valid, else save the cleaned data and
\* go on to step 4
CheckValidRecords ==
    /\ pc = "cleaned"
    /\ pc' = IF Len(valid_records) = 0 THEN "exit_no_valid" ELSE "analyze"
    /\ UNCHANGED <<raw_records, idx, valid_records, invalid_records, outcome, analysis,
                   report, input_file, lines, enriched_records, final_report, lookups>>

NextMain ==
    ReadSalesFile \/ ParseLines \/ CleanIteration \/ CleanReturn \/ CheckValidRecords

SpecMain == InitMain /\ [][NextMain]_vars

-----------------------------------------------------------------------------
(* Claims about main *)

\* the data lines of the file: those after the header
DataLines == IF input_file.content = <<>> THEN <<>> ELSE Tail(input_file.content)

\* a data line is well formed and its record satisfies the seven rules
HasGoodLine ==
    \E i \in 1..Len(DataLines) :
        /\ parse_line(DataLines[i]) # NoneV
        /\ SatisfiesAllRules(parse_line(DataLines[i]))

\* C12: main exits early only with no record read or with no valid record,
\* and never on a file that has a well-formed data line whose record
\* satisfies the seven rules: such a run goes on to the analysis and the
\* comprehensive report.
C12_GoodInputRunsToReport ==
    /\ pc = "exit_no_records" => lines = <<>> \/ Len(lines) = 1
    /\ pc = "exit_no_valid" => valid_records = <<>>
    /\ HasGoodLine => pc \notin {"exit_no_records", "exit_no_valid"}

-----------------------------------------------------------------------------
(* Claims about repeated analysis and the consistency of the sections *)

\* a step that is a call of analyze_sales
AnalyzeCall == pc \in {"analyze", "analyzed"} /\ pc' \in {"analyzed", "analyzed_again"}

RECURSIVE RegionTotal(_)
RegionTotal(by_region) ==
    IF by_region = <<>> THEN 0
    ELSE Head(by_region).val.total_sales + RegionTotal(Tail(by_region))

\* the sum of the values of the entries of sales_trends
RECURSIVE TrendTotal(_)
TrendTotal(sales_trends) ==
    IF sales_trends = <<>> THEN 0
    ELSE Head(sales_trends).val + TrendTotal(Tail(sales_trends))

\* C14: for a non-empty valid list, summary.total_sales equals the sum of
\* the by_region total_sales and equals the sum of the sales_trends values.
C14_TotalsConsistent ==
    (Analyzed /\ valid_records # <<>>) =>
        /\ analysis.summary.total_sales = RegionTotal(analysis.by_region)
        /\ analysis.summary.total_sales = TrendTotal(analysis.sales_trends)

\* the calendar date a date string denotes, as the number yyyymmdd
CalendarDate(s) ==
    LET fields == Split(s, "-", <<>>)
    IN  (DigitsVal(Strip(fields[1])) * 100 + DigitsVal(Strip(fields[2]))) * 100
        + DigitsVal(Strip(fields[3]))

\* C15: the entries of sales_trends are in chronological order of the
\* calendar dates their date strings denote.
C15_TrendsChronological ==
    (Analyzed /\ valid_records # <<>>) =>
        \A i \in 1..(Len(analysis.sales_trends) - 1) :
            CalendarDate(analysis.sales_trends[i].key.s)
                <= CalendarDate(analysis.sales_trends[i + 1].key.s)


=============================================================================
